---- MODULE Spec2Model ----
(***************************************************************************)
(* Model of the thesis-examination scheduling DSS (src/backend).           *)
(*                                                                         *)
(* The state is the caller's input objects (students, examiners, rooms,    *)
(* timeslots, exam sessions, criteria), the locals of one call of          *)
(* ExamSchedulingDSS.generate_schedule, and a few history variables.       *)
(*                                                                         *)
(* Numbers.  Python floats are modelled as fixed-point integers in units   *)
(* of 1/Scale; NaN is a separate value that poisons arithmetic and makes   *)
(* every ordered comparison false, as IEEE-754 does.  With the             *)
(* non-negative inputs of this model no infinity arises: every division    *)
(* by zero in the code is 0/0.                                             *)
(***************************************************************************)
EXTENDS Integers, Sequences, FiniteSets, TLC

(***************************************************************************)
(* Bounds of the model.                                                    *)
(***************************************************************************)
NumExaminers == 3
NumRooms == 2
NumTimeslots == 2
NumSessions == 2
MaxRuns == 2
\* size of a pairwise comparison matrix, length of a score list and number of
\* alternatives in the direct calls of the MCDM engine
MaxDim == 3
MaxScores == 3
MaxAlternatives == 2
\* one student per exam session
NumStudents == NumSessions

(***************************************************************************)
(* Fixed-point arithmetic with NaN.                                        *)
(***************************************************************************)
Scale == 1000
NaN == -999999

Range(s) == {s[i] : i \in 1..Len(s)}

\* a Python list or NumPy array: its elements are evaluated once, when it is built
List(f) == <<>> \o f

IsNaN(x) == x = NaN

FAdd(a, b) == IF IsNaN(a) \/ IsNaN(b) THEN NaN ELSE a + b

FSub(a, b) == IF IsNaN(a) \/ IsNaN(b) THEN NaN ELSE a - b

FMul(a, b) == IF IsNaN(a) \/ IsNaN(b) THEN NaN ELSE (a * b) \div Scale

\* a / b; the only division by zero the inputs allow is 0/0 = nan
FDiv(a, b) ==
    IF IsNaN(a) \/ IsNaN(b) THEN NaN
    ELSE IF b = 0 THEN NaN
    ELSE (a * Scale) \div b

FGt(a, b) == ~IsNaN(a) /\ ~IsNaN(b) /\ a > b

RECURSIVE ISqrtFrom(_, _, _)
ISqrtFrom(x, lo, hi) ==
    IF lo >= hi THEN lo
    ELSE LET mid == (lo + hi + 1) \div 2
         IN IF mid * mid <= x THEN ISqrtFrom(x, mid, hi)
            ELSE ISqrtFrom(x, lo, mid - 1)

\* np.sqrt of a value held in squared units (Scale * Scale)
FSqrt2(x) == IF IsNaN(x) THEN NaN ELSE ISqrtFrom(x, 0, IF x < 46340 THEN x ELSE 46340)

\* np.sum / np.max / np.min over a sequence of numbers
RECURSIVE FSum(_)
FSum(s) == IF s = <<>> THEN 0 ELSE FAdd(Head(s), FSum(Tail(s)))

FMax(s) ==
    IF \E i \in 1..Len(s) : IsNaN(s[i]) THEN NaN
    ELSE CHOOSE m \in Range(s) : \A x \in Range(s) : m >= x

FMin(s) ==
    IF \E i \in 1..Len(s) : IsNaN(s[i]) THEN NaN
    ELSE CHOOSE m \in Range(s) : \A x \in Range(s) : m <= x

\* np.mean: the mean of an empty list is nan
FMean(s) == IF s = <<>> THEN NaN
            ELSE IF IsNaN(FSum(s)) THEN NaN ELSE FSum(s) \div Len(s)

Column(matrix, j) == List([i \in 1..Len(matrix) |-> matrix[i][j]])

(***************************************************************************)
(* mcdm_methods.py: SAW                                                    *)
(***************************************************************************)
\* one normalised column of SAWMethod.normalize_matrix
SAWNormalizeColumn(column, criteria_type) ==
    IF criteria_type = "benefit"
    THEN LET max_val == FMax(column)
         IN List([i \in 1..Len(column) |->
                IF max_val # 0 THEN FDiv(column[i], max_val) ELSE column[i]])
    ELSE LET min_val == FMin(column)
         IN List([i \in 1..Len(column) |->
                IF \A k \in 1..Len(column) : column[k] # 0
                THEN FDiv(min_val, column[i])
                ELSE FSub(Scale, FDiv(column[i], FMax(column)))])

SAWNormalizeMatrix(decision_matrix, criteria_types) ==
    LET cols == List([j \in 1..Len(criteria_types) |->
                    SAWNormalizeColumn(Column(decision_matrix, j), criteria_types[j])])
    IN List([i \in 1..Len(decision_matrix) |->
           List([j \in 1..Len(criteria_types) |-> cols[j][i]])])

\* np.dot(row, weights)
Dot(row, weights) == FSum(List([j \in 1..Len(row) |-> FMul(row[j], weights[j])]))

SAWCalculateScores(decision_matrix, weights, criteria_types) ==
    LET normalized_matrix == SAWNormalizeMatrix(decision_matrix, criteria_types)
    IN List([i \in 1..Len(decision_matrix) |-> Dot(normalized_matrix[i], weights)])

(***************************************************************************)
(* mcdm_methods.py: TOPSIS                                                 *)
(***************************************************************************)
Sq(x) == IF IsNaN(x) THEN NaN ELSE x * x

TOPSISNormalizeMatrix(decision_matrix, ncols) ==
    LET norms == List([j \in 1..ncols |->
                    LET n == FSqrt2(FSum(List([i \in 1..Len(decision_matrix) |->
                                             Sq(decision_matrix[i][j])])))
                    IN IF n = 0 THEN Scale ELSE n])
    IN List([i \in 1..Len(decision_matrix) |->
           List([j \in 1..ncols |-> FDiv(decision_matrix[i][j], norms[j])])])

TOPSISCalculateScores(decision_matrix, weights, criteria_types) ==
    LET ncols == Len(criteria_types)
        rows == 1..Len(decision_matrix)
        normalized_matrix == TOPSISNormalizeMatrix(decision_matrix, ncols)
        weighted_matrix == List([i \in rows |->
                               List([j \in 1..ncols |-> FMul(normalized_matrix[i][j], weights[j])])])
        ideal_solution == List([j \in 1..ncols |->
                              IF criteria_types[j] = "benefit"
                              THEN FMax(Column(weighted_matrix, j))
                              ELSE FMin(Column(weighted_matrix, j))])
        negative_ideal_solution == List([j \in 1..ncols |->
                              IF criteria_types[j] = "benefit"
                              THEN FMin(Column(weighted_matrix, j))
                              ELSE FMax(Column(weighted_matrix, j))])
        distances_to_ideal == List([i \in rows |->
            FSqrt2(FSum(List([j \in 1..ncols |->
                            Sq(FSub(weighted_matrix[i][j], ideal_solution[j]))])))])
        distances_to_negative_ideal == List([i \in rows |->
            FSqrt2(FSum(List([j \in 1..ncols |->
                            Sq(FSub(weighted_matrix[i][j], negative_ideal_solution[j]))])))])
        scores == List([i \in rows |->
            FDiv(distances_to_negative_ideal[i],
                 FAdd(distances_to_ideal[i], distances_to_negative_ideal[i]))])
    IN \* np.nan_to_num(scores, nan=0.0)
       List([i \in rows |-> IF IsNaN(scores[i]) THEN 0 ELSE scores[i]])

(***************************************************************************)
(* mcdm_methods.py: AHPMethod                                              *)
(*                                                                         *)
(* The entries of a pairwise comparison matrix are fixed-point numbers in  *)
(* units of 1/Micro, fine enough for the tolerance of the validation.      *)
(* Here a division by zero can have a non-zero numerator, so the results   *)
(* range over the numbers, NaN, Inf and -Inf.                              *)
(***************************************************************************)
Micro == 1000000
Inf == 2000000000

Abs(x) == IF x < 0 THEN -x ELSE x

\* a * b for a, b in units of 1/Micro, by long multiplication in base 1000
MulMicro(a, b) ==
    LET a1 == a \div 1000
        a0 == a % 1000
        b1 == b \div 1000
        b0 == b % 1000
    IN a1 * b1 + ((a1 * b0 + a0 * b1) + (a0 * b0) \div 1000) \div 1000

\* np.isclose(x, 1, rtol=1e-5) and np.allclose(x, 1): |x - 1| <= 1e-8 + 1e-5 * 1
IsCloseToOne(x) == Abs(x - Micro) * 100 <= 1001

\* a / (p / q) in float64 arithmetic, p >= 0, q > 0: a division by zero yields
\* nan or an infinity (NumPy scalars warn, they do not raise)
DivIEEE(a, p, q) ==
    IF IsNaN(a) THEN NaN
    ELSE IF p = 0 THEN (IF a = 0 THEN NaN ELSE IF a > 0 THEN Inf ELSE -Inf)
    ELSE IF Abs(a) = Inf THEN a
    ELSE (a * q) \div p

\* self.random_index, in hundredths
RandomIndex(n) ==
    CASE n \in {1, 2} -> 0
      [] n = 3 -> 58
      [] n = 4 -> 90
      [] n = 5 -> 112
      [] n = 6 -> 124
      [] n = 7 -> 132
      [] n = 8 -> 141
      [] n = 9 -> 145
      [] OTHER -> 149

\* self.consistency_ratio_threshold
ConsistencyRatioThreshold == Micro \div 10

RECURSIVE SumSeq(_)
SumSeq(s) == IF s = <<>> THEN 0 ELSE Head(s) + SumSeq(Tail(s))

\* the derived weights are in units of 1/WeightUnit
WeightUnit == 100000000

\* a / b in float64 arithmetic, the quotient in units of 1/WeightUnit
DivUnit(a, b) ==
    IF b = 0 THEN (IF a = 0 THEN NaN ELSE IF a > 0 THEN Inf ELSE -Inf)
    ELSE LET q == (Abs(a) * WeightUnit) \div Abs(b)
         IN IF (a < 0) = (b < 0) THEN q ELSE -q

\* np.abs
AbsIEEE(x) == IF IsNaN(x) THEN NaN ELSE Abs(x)

\* np.linalg.eig: an eigenvector is known by its direction; the directions looked
\* for have these components, the first one positive
EigenComponents == {-1, 1, 2, 4}

\* (matrix . x)[i]
RowTimes(matrix, i, x) == SumSeq(List([j \in 1..Len(x) |-> matrix[i][j] * x[j]]))

\* matrix . x = lambda * x, with lambda = (matrix . x)[1] / x[1]
IsEigenvector(matrix, x) ==
    \A i \in 1..Len(x) :
        RowTimes(matrix, i, x) * x[1] = RowTimes(matrix, 1, x) * x[i]

Eigenvectors(matrix) ==
    {List(x) : x \in {y \in [1..Len(matrix) -> EigenComponents] :
                          y[1] > 0 /\ IsEigenvector(matrix, y)}}

\* the eigenvalue of the eigenvector x, in units of 1/Micro
Eigenvalue(matrix, x) == RowTimes(matrix, 1, x) \div x[1]

\* eigenvectors[:, np.argmax(eigenvalues.real)] up to its length and sign; every
\* matrix of the comparison matrices below that passes validate_matrix has an
\* eigenvector among the directions looked for, and for a matrix that has none
\* the direction is (1, ..., 1)
PrincipalDirection(matrix) ==
    IF Eigenvectors(matrix) = {}
    THEN List([i \in 1..Len(matrix) |-> 1])
    ELSE CHOOSE x \in Eigenvectors(matrix) :
             \A y \in Eigenvectors(matrix) :
                 Eigenvalue(matrix, y) <= Eigenvalue(matrix, x)

\* eigenvalues[np.argmax(eigenvalues.real)].real: the Perron root of a positive
\* matrix, which for a matrix whose rows all have the same sum is that sum
MaxEigenvalue(matrix) == Eigenvalue(matrix, PrincipalDirection(matrix))

\* the normalisation by the largest component instead of the sum
NormalizeByLargest(principal_eigenvector) ==
    LET n == Len(principal_eigenvector)
        largest == CHOOSE c \in Range(principal_eigenvector) :
                       \A d \in Range(principal_eigenvector) : Abs(d) <= Abs(c)
    IN List([i \in 1..n |-> AbsIEEE(DivUnit(principal_eigenvector[i], largest))])

\* weights = principal_eigenvector / np.sum(principal_eigenvector), then np.abs;
\* the common length of the components cancels in the quotient
NormalizeEigenvector(principal_eigenvector) ==
    LET n == Len(principal_eigenvector)
    IN List([i \in 1..n |->
           AbsIEEE(DivUnit(principal_eigenvector[i], SumSeq(principal_eigenvector)))])

\* AHPMethod.calculate_weights; eig_sign is the sign np.linalg.eig gave the
\* principal eigenvector, which LAPACK leaves open
AHPCalculateWeights(pairwise_matrix, eig_sign) ==
    LET n == Len(pairwise_matrix)
        max_eigenvalue == MaxEigenvalue(pairwise_matrix)
        direction == PrincipalDirection(pairwise_matrix)
        principal_eigenvector == List([i \in 1..n |-> eig_sign * direction[i]])
        weights == NormalizeEigenvector(principal_eigenvector)
        consistency_index == DivIEEE(max_eigenvalue - n * Micro, n - 1, 1)
        consistency_ratio == DivIEEE(consistency_index, RandomIndex(n), 100)
    IN [weights |-> weights, consistency_ratio |-> consistency_ratio]

\* AHPMethod.is_consistent: a comparison with nan is false
AHPIsConsistent(consistency_ratio) ==
    ~IsNaN(consistency_ratio) /\ consistency_ratio <= ConsistencyRatioThreshold

\* the reciprocal test left out
AHPValidateShapeAndDiagonal(matrix) ==
    LET n == Len(matrix)
    IN IF Len(matrix[1]) # n THEN FALSE
       ELSE \A i \in 1..n : IsCloseToOne(matrix[i][i])

\* AHPMethod.validate_matrix
AHPValidateMatrix(matrix) ==
    LET n == Len(matrix)
    IN IF Len(matrix[1]) # n THEN FALSE
       ELSE IF ~(\A i \in 1..n : IsCloseToOne(matrix[i][i])) THEN FALSE
       ELSE \A i \in 1..n : \A j \in 1..n :
                IsCloseToOne(MulMicro(matrix[i][j], matrix[j][i]))

\* MCDMEngine.calculate_ahp_weights; raised = TRUE stands for
\* ValueError("Invalid pairwise comparison matrix")
CalculateAHPWeights(matrix, eig_sign) ==
    IF ~AHPValidateMatrix(matrix)
    THEN [raised |-> TRUE, weights |-> <<>>, consistency_ratio |-> NaN,
          is_consistent |-> FALSE]
    ELSE LET r == AHPCalculateWeights(matrix, eig_sign)
         IN [raised |-> FALSE, weights |-> r.weights,
             consistency_ratio |-> r.consistency_ratio,
             is_consistent |-> AHPIsConsistent(r.consistency_ratio)]

(***************************************************************************)
(* mcdm_methods.py: MCDMEngine.evaluate_alternatives                       *)
(***************************************************************************)
\* method.upper()
Upper(method) ==
    CASE method \in {"SAW", "saw"} -> "SAW"
      [] method \in {"TOPSIS", "topsis"} -> "TOPSIS"
      [] OTHER -> method

\* weights / np.sum(weights)
NormalizeWeights(criteria) ==
    LET total == FSum(List([j \in 1..Len(criteria) |-> criteria[j].weight]))
    IN List([j \in 1..Len(criteria) |-> FDiv(criteria[j].weight, total)])

\* dict(zip(names, values)): a later entry of the same name replaces an earlier one
ZipDict(names, values) ==
    [n \in Range(names) |->
        values[CHOOSE j \in 1..Len(names) :
                  /\ names[j] = n
                  /\ \A k \in (j + 1)..Len(names) : names[k] # n]]

\* reverse=True left out: ascending
RECURSIVE RankAscending(_)
RankAscending(scores) ==
    IF scores = <<>> THEN <<>>
    ELSE LET rest == RankAscending(SubSeq(scores, 1, Len(scores) - 1))
             i == Len(scores) - 1
             ahead == {k \in 1..Len(rest) : scores[i + 1] < scores[rest[k] + 1]}
             pos == IF ahead = {} THEN Len(rest) + 1
                    ELSE CHOOSE k \in ahead : \A m \in ahead : k <= m
         IN SubSeq(rest, 1, pos - 1) \o <<i>> \o SubSeq(rest, pos, Len(rest))

\* MCDMEngine.rank_alternatives: sorted(range(len(scores)), key=..., reverse=True),
\* a stable sort; the indices count from 0
RECURSIVE RankAlternatives(_)
RankAlternatives(scores) ==
    IF scores = <<>> THEN <<>>
    ELSE LET rest == RankAlternatives(SubSeq(scores, 1, Len(scores) - 1))
             i == Len(scores) - 1
             \* i goes before the first index whose score is strictly smaller
             ahead == {k \in 1..Len(rest) : FGt(scores[i + 1], scores[rest[k] + 1])}
             pos == IF ahead = {} THEN Len(rest) + 1
                    ELSE CHOOSE k \in ahead : \A m \in ahead : k <= m
         IN SubSeq(rest, 1, pos - 1) \o <<i>> \o SubSeq(rest, pos, Len(rest))

\* the final else branch falling back to SAW instead of raising
EvaluateAlternativesDefaultSAW(decision_matrix, criteria, method) ==
    LET weights == NormalizeWeights(criteria)
        criteria_types == List([j \in 1..Len(criteria) |-> criteria[j].type])
        criteria_names == List([j \in 1..Len(criteria) |-> criteria[j].name])
    IN IF Upper(method) = "TOPSIS"
       THEN [raised |-> FALSE,
             scores |-> TOPSISCalculateScores(decision_matrix, weights, criteria_types),
             criteria_weights_dict |-> ZipDict(criteria_names, weights)]
       ELSE [raised |-> FALSE,
             scores |-> SAWCalculateScores(decision_matrix, weights, criteria_types),
             criteria_weights_dict |-> ZipDict(criteria_names, weights)]

\* result: raised = TRUE stands for ValueError("Unsupported method")
EvaluateAlternatives(decision_matrix, criteria, method) ==
    LET weights == NormalizeWeights(criteria)
        criteria_types == List([j \in 1..Len(criteria) |-> criteria[j].type])
        criteria_names == List([j \in 1..Len(criteria) |-> criteria[j].name])
    IN IF Upper(method) = "SAW"
       THEN [raised |-> FALSE,
             scores |-> SAWCalculateScores(decision_matrix, weights, criteria_types),
             criteria_weights_dict |-> ZipDict(criteria_names, weights)]
       ELSE IF Upper(method) = "TOPSIS"
       THEN [raised |-> FALSE,
             scores |-> TOPSISCalculateScores(decision_matrix, weights, criteria_types),
             criteria_weights_dict |-> ZipDict(criteria_names, weights)]
       ELSE [raised |-> TRUE, scores |-> <<>>, criteria_weights_dict |-> <<>>]

(***************************************************************************)
(* scheduling_engine.py: criteria and evaluator scoring                    *)
(***************************************************************************)
DefaultCriteria ==
    << [id |-> 1, name |-> "expertise_match", weight |-> 300, type |-> "benefit"],
       [id |-> 2, name |-> "competency_score", weight |-> 250, type |-> "benefit"],
       [id |-> 3, name |-> "availability_score", weight |-> 200, type |-> "benefit"],
       [id |-> 4, name |-> "workload", weight |-> 150, type |-> "cost"],
       [id |-> 5, name |-> "experience_years", weight |-> 100, type |-> "benefit"] >>

\* "keyword in expertise or expertise in keyword": a keyword is one word, an
\* expertise entry a phrase (sequence of words); words are atoms, none a
\* substring of another; the empty string is a substring of every keyword
KeywordMatches(keyword, expertise) ==
    expertise = <<>> \/ \E k \in 1..Len(expertise) : expertise[k] = keyword

CalculateExpertiseMatch(examiner, student) ==
    LET student_field_keywords == student.thesis_field
        matches == Cardinality({k \in 1..Len(student_field_keywords) :
                       \E expertise \in examiner.expertise :
                           KeywordMatches(student_field_keywords[k], expertise)})
        max_possible_matches == Len(student_field_keywords)
    IN IF max_possible_matches > 0
       THEN LET q == FDiv(matches * Scale, max_possible_matches * Scale)
            IN IF q < Scale THEN q ELSE Scale
       ELSE 0

EvaluateExaminerForStudent(examiner, student, timeslot_id) ==
    LET expertise_match == CalculateExpertiseMatch(examiner, student)
        max_workload == 10
        f == FDiv((max_workload - examiner.workload) * Scale, max_workload * Scale)
    IN [examiner_id |-> examiner.id,
        student_id |-> student.id,
        compatibility_score |-> expertise_match,
        expertise_match |-> expertise_match,
        workload_factor |-> IF f > 0 THEN f ELSE 0,
        availability_factor |-> IF timeslot_id \in examiner.available_timeslots
                                THEN Scale ELSE 0]

\* one row of the decision matrix, by criterion name
DecisionRow(examiner, student, timeslot_id, criteria) ==
    LET evaluation == EvaluateExaminerForStudent(examiner, student, timeslot_id)
    IN List([j \in 1..Len(criteria) |->
           CASE criteria[j].name = "expertise_match" -> evaluation.expertise_match
             [] criteria[j].name = "competency_score" -> examiner.competency_score
             [] criteria[j].name = "availability_score" -> examiner.availability_score
             [] criteria[j].name = "workload" -> examiner.workload * Scale
             [] criteria[j].name = "experience_years" -> examiner.experience_years * Scale
             [] OTHER -> Scale \div 2])

\* list.sort(key=score, reverse=True): stable, descending
RECURSIVE SortByScoreDesc(_)
SortByScoreDesc(s) ==
    IF s = <<>> THEN <<>>
    ELSE LET rest == SortByScoreDesc(SubSeq(s, 1, Len(s) - 1))
             x == s[Len(s)]
             \* x goes before the first element it is strictly greater than
             ahead == {k \in 1..Len(rest) : FGt(x.score, rest[k].score)}
             pos == IF ahead = {} THEN Len(rest) + 1
                    ELSE CHOOSE k \in ahead : \A m \in ahead : k <= m
         IN SubSeq(rest, 1, pos - 1) \o <<x>> \o SubSeq(rest, pos, Len(rest))

\* Python's s[:k], k possibly negative
PySlicePrefix(s, k) ==
    IF k >= 0 THEN SubSeq(s, 1, IF k < Len(s) THEN k ELSE Len(s))
    ELSE SubSeq(s, 1, IF Len(s) + k > 0 THEN Len(s) + k ELSE 0)

\* the supervisor's fixed score
SupervisorScore == 900

\* the supervisor left out of the result
AssembleRegularOnly(supervisor, selected_regular) == selected_regular

\* result = [(supervisor, supervisor_score)] + selected_regular
AssembleResult(supervisor, selected_regular) ==
    <<[examiner |-> supervisor, score |-> SupervisorScore]>> \o selected_regular

\* result  = list of (examiner, score); raised = the ValueError of the engine
\* an absent supervisor replaced by the best-scoring available examiners
SelectReplacingSupervisor(student, examinerList, timeslot_id, required_count, crit, meth) ==
    LET available_examiners ==
            SelectSeq(examinerList, LAMBDA e : timeslot_id \in e.available_timeslots)
        regular_examiners ==
            SelectSeq(available_examiners, LAMBDA e : e.id # student.supervisor_id)
        supervisors ==
            SelectSeq(available_examiners, LAMBDA e : e.id = student.supervisor_id)
        decision_matrix == List([i \in 1..Len(regular_examiners) |->
            DecisionRow(regular_examiners[i], student, timeslot_id, crit)])
    IN IF Len(available_examiners) < required_count
       THEN [raised |-> FALSE, result |-> <<>>]
       ELSE IF decision_matrix = <<>>
       THEN [raised |-> FALSE, result |-> <<>>]
       ELSE LET ev == EvaluateAlternatives(decision_matrix, crit, meth)
            IN IF ev.raised THEN [raised |-> TRUE, result |-> <<>>]
               ELSE LET examiner_scores ==
                            List([i \in 1..Len(regular_examiners) |->
                                [examiner |-> regular_examiners[i],
                                 score |-> ev.scores[i]]])
                        sorted_scores == SortByScoreDesc(examiner_scores)
                    IN [raised |-> FALSE,
                        result |->
                            IF supervisors = <<>>
                            THEN PySlicePrefix(sorted_scores, required_count)
                            ELSE AssembleResult(supervisors[1],
                                     PySlicePrefix(sorted_scores, required_count - 1))]

\* the availability filter left out
AllExaminers(examinerList, timeslot_id) == examinerList

\* line 120
AvailableExaminers(examinerList, timeslot_id) ==
    SelectSeq(examinerList, LAMBDA e : timeslot_id \in e.available_timeslots)

\* the supervisor is ranked with the others
RegularWithSupervisor(available_examiners, supervisor_id) == available_examiners

\* line 127
RegularExaminers(available_examiners, supervisor_id) ==
    SelectSeq(available_examiners, LAMBDA e : e.id # supervisor_id)

SelectBestExaminers(student, examinerList, timeslot_id, required_count, crit, meth) ==
    LET available_examiners == AvailableExaminers(examinerList, timeslot_id)
        regular_examiners == RegularExaminers(available_examiners, student.supervisor_id)
        supervisors ==
            SelectSeq(available_examiners, LAMBDA e : e.id = student.supervisor_id)
        decision_matrix == List([i \in 1..Len(regular_examiners) |->
            DecisionRow(regular_examiners[i], student, timeslot_id, crit)])
    IN IF Len(available_examiners) < required_count
       THEN [raised |-> FALSE, result |-> <<>>]
       ELSE IF supervisors = <<>>
       THEN [raised |-> FALSE, result |-> <<>>]
       ELSE IF decision_matrix = <<>>
       THEN [raised |-> FALSE, result |-> <<>>]
       ELSE LET ev == EvaluateAlternatives(decision_matrix, crit, meth)
            IN IF ev.raised THEN [raised |-> TRUE, result |-> <<>>]
               ELSE LET examiner_scores ==
                            List([i \in 1..Len(regular_examiners) |->
                                [examiner |-> regular_examiners[i],
                                 score |-> ev.scores[i]]])
                        selected_regular ==
                            PySlicePrefix(SortByScoreDesc(examiner_scores),
                                          required_count - 1)
                    IN [raised |-> FALSE,
                        result |-> AssembleResult(supervisors[1], selected_regular)]

(***************************************************************************)
(* scheduling_engine.py: rooms and constraints                             *)
(***************************************************************************)
Min2(a, b) == IF a < b THEN a ELSE b

EvaluateRoomSuitability(room, required_capacity) ==
    LET capacity_factor == Min2(FDiv(room.capacity * Scale, required_capacity * Scale), Scale)
        quality_factor == FDiv(room.quality_score, 5 * Scale)
        facility_factor == Min2(FDiv(room.facilities * Scale, 10 * Scale), Scale)
    IN FMul(capacity_factor, 500) + FMul(quality_factor, 300) + FMul(facility_factor, 200)

\* no test at all
CheckNothing(sched, new_exam) == TRUE

\* the timeslot test left out: a room or an examiner is taken for every timeslot
CheckAnyTimeslot(sched, new_exam) ==
    \A k \in 1..Len(sched) :
        /\ sched[k].room_id # new_exam.room_id
        /\ Range(sched[k].assigned_examiners) \cap Range(new_exam.assigned_examiners) = {}

\* the examiner-overlap test left out
CheckRoomConflictOnly(sched, new_exam) ==
    \A k \in 1..Len(sched) :
        sched[k].timeslot_id = new_exam.timeslot_id =>
            sched[k].room_id # new_exam.room_id

CheckSchedulingConstraints(sched, new_exam) ==
    \A k \in 1..Len(sched) :
        sched[k].timeslot_id = new_exam.timeslot_id =>
            /\ sched[k].room_id # new_exam.room_id
            /\ Range(sched[k].assigned_examiners) \cap Range(new_exam.assigned_examiners) = {}

\* np.std: the square root of the mean squared deviation from the mean
FStd(s) ==
    LET mean == FMean(s)
    IN FSqrt2(FMean(List([i \in 1..Len(s) |-> Sq(FSub(s[i], mean))])))

\* analyze_schedule_quality: the dict it returns, a record of the metrics
AnalyzeScheduleQuality(sol) ==
    IF sol.schedule = <<>>
    THEN [overall_quality |-> 0]
    ELSE LET scores == List([k \in 1..Len(sol.schedule) |-> sol.schedule[k].total_score])
         IN [overall_quality |-> sol.total_satisfaction,
             average_score |-> FMean(scores),
             min_score |-> FMin(scores),
             max_score |-> FMax(scores),
             score_std |-> FStd(scores),
             scheduled_exams |-> Len(sol.schedule),
             infeasible_exams |-> Len(sol.infeasible_exams),
             success_rate |-> FDiv(Len(sol.schedule) * Scale,
                                   (Len(sol.schedule) + Len(sol.infeasible_exams)) * Scale)]

(***************************************************************************)
(* Input objects of the caller.  Identifiers are unique (models.py) and    *)
(* are the list positions; attribute values not drawn in Init follow the   *)
(* fixtures of test_scheduling.py.                                         *)
(***************************************************************************)
ExaminerIds == 1..NumExaminers
TimeslotIds == 1..NumTimeslots

ExpertiseOf(i) ==
    CASE i % 3 = 1 -> {<<"machine", "learning">>, <<"artificial", "intelligence">>}
      [] i % 3 = 2 -> {<<"web", "development">>, <<"software", "engineering">>}
      [] OTHER -> {<<"computer", "science">>, <<"algorithms">>}

ThesisFieldOf(i) ==
    IF i % 2 = 1 THEN <<"machine", "learning", "artificial", "intelligence">>
    ELSE <<"web", "development", "software", "engineering">>

MakeExaminer(i, avail, load) ==
    [id |-> i,
     expertise |-> ExpertiseOf(i),
     experience_years |-> 10 - 2 * ((i - 1) % 3),
     workload |-> load,
     availability_score |-> 4000 + 500 * ((i - 1) % 3),
     competency_score |-> 4500 - 500 * ((i - 1) % 3),
     available_timeslots |-> avail]

MakeStudent(i, sup) ==
    [id |-> i, name |-> i, thesis_field |-> ThesisFieldOf(i), supervisor_id |-> sup]

MakeRoom(i, quality) ==
    [id |-> i, capacity |-> 20, facilities |-> 2, quality_score |-> quality]

MakeSession(i, sid, req, prio) ==
    [id |-> i, student_id |-> sid, required_examiners |-> req, priority |-> prio]

\* every examiner is available at every timeslot, only the first examiner is
\* available at all, or one of the first two is available only at the first timeslot
AvailabilityChoices ==
    {[i \in ExaminerIds |-> TimeslotIds],
     [i \in ExaminerIds |-> IF i = 1 THEN TimeslotIds ELSE {}]} \cup
    {[i \in ExaminerIds |-> IF i = k THEN {1} ELSE TimeslotIds] : k \in {1, 2}}

\* the loads the examiners arrive with: all at the default 0, or mixed
WorkloadChoices ==
    {[i \in ExaminerIds |-> 0], [i \in ExaminerIds |-> i % 2], [i \in ExaminerIds |-> 2 - (i % 2)]}

\* the first student is supervised by the first examiner, the second by the
\* same examiner or by the next one
SupervisorChoices ==
    {[i \in 1..NumStudents |-> IF i = 2 THEN k ELSE ((i - 1) % NumExaminers) + 1] :
        k \in {1, 2}}

\* rooms of equal quality, or the second room better than the others
QualityChoices ==
    {[i \in 1..NumRooms |-> IF i = 2 THEN q ELSE 4000] : q \in {4000, 4500}}

RequiredChoices ==
    {[i \in 1..NumSessions |-> IF i = 1 THEN r1 ELSE IF i = 2 THEN r2 ELSE 1] :
        r1 \in {0, 1, 2, 3}, r2 \in {1, 3}}

\* equal priorities, or the first session behind the others
PriorityChoices ==
    {[i \in 1..NumSessions |-> IF i = 1 THEN p1 ELSE 1000] : p1 \in {800, 1000}}

\* session i is the exam of student i; NumStudents + 1 is the identifier of no student
StudentIdChoices ==
    {[i \in 1..NumSessions |-> IF i = NumSessions /\ unknown THEN NumStudents + 1 ELSE i] :
        unknown \in BOOLEAN}

MethodChoices == {"SAW", "topsis", "AHP"}

\* the n x n matrix whose row i is the tuple c rotated i - 1 places to the right
Circulant(c) ==
    List([i \in 1..Len(c) |-> List([j \in 1..Len(c) |-> c[((j - i) % Len(c)) + 1]])])

\* diagonal entries: 1, 1.000001, 2
DiagonalChoices == {Micro, Micro + 1, 2 * Micro}

\* comparison ratios: 1, 2, 0.5, 0.4, 1.000001
RatioChoices == {Micro, 2 * Micro, Micro \div 2, 400000, Micro + 1}

\* the matrix of the ratios w[i] / w[j], which is reciprocal and consistent
ConsistentMatrix(w) ==
    List([i \in 1..Len(w) |-> List([j \in 1..Len(w) |-> (w[i] * Micro) \div w[j]])])

\* importances of the criteria compared
ImportanceChoices == {1, 2, 4}

\* pairwise comparison matrices: the circulant ones, all of whose rows have the
\* same sum, of every size; the consistent ones of every size; all-ones matrices
\* with a column too many; a non-reciprocal 2 x 2 matrix and the non-reciprocal
\* 3 x 3 matrix of test_ahp_method; two matrices with a pair of negative ratios
\* whose product is 1
PairwiseMatrices ==
    UNION {{ConsistentMatrix(List(w)) : w \in [1..n -> ImportanceChoices]} :
              n \in 1..MaxDim}
    \cup {<< <<Micro, -2 * Micro>>, <<-(Micro \div 2), Micro>> >>,
          << <<Micro, -Micro>>, <<-Micro, Micro>> >>}
    \cup
    UNION {{Circulant(<<d>> \o List(r)) : d \in DiagonalChoices,
                                          r \in [1..(n - 1) -> RatioChoices]} :
              n \in 1..MaxDim}
    \cup {List([i \in 1..n |-> List([j \in 1..(n + 1) |-> Micro])]) : n \in 1..MaxDim}
    \cup {<< <<Micro, 2 * Micro>>, <<400000, Micro>> >>,
          << <<Micro, 2 * Micro, 3 * Micro>>,
             <<Micro \div 2, Micro, 2 * Micro>>,
             <<Micro \div 2, Micro \div 2, Micro>> >>}

ScoreChoices == {600, 800, 900}

ScoreLists == UNION {{List(f) : f \in [1..n -> ScoreChoices]} : n \in 0..MaxScores}

\* rows of a decision matrix in the order of the default criteria: expertise
\* match, competency, availability, workload, experience
AlternativeRows ==
    {<<1000, 4500, 4000, 0, 10000>>,
     <<500, 4000, 4500, 0, 8000>>,
     <<0, 3500, 5000, 2000, 6000>>}

DecisionMatrices ==
    UNION {{List(f) : f \in [1..n -> AlternativeRows]} : n \in 1..MaxAlternatives}

\* weights of the five criteria, each within [0, 1]: the default ones, the default
\* ones halved, all 1, only the first not 0, all 0
WeightChoices ==
    {<<300, 250, 200, 150, 100>>,
     <<150, 125, 100, 75, 50>>,
     <<1000, 1000, 1000, 1000, 1000>>,
     <<1000, 0, 0, 0, 0>>,
     <<0, 0, 0, 0, 0>>}

\* the default criteria with other weights
CriteriaChoices ==
    {List([j \in 1..Len(DefaultCriteria) |-> [DefaultCriteria[j] EXCEPT !.weight = w[j]]]) :
        w \in WeightChoices}

\* at most this many assignments in a schedule passed to the constraint check
MaxSchedule == 2

\* assignments as test_constraint_checking builds them: a timeslot, a room and
\* the examiners [1, 2, 3], [4, 5, 6] or [1, 4, 5]
AssignmentChoices ==
    {[timeslot_id |-> t, room_id |-> r, assigned_examiners |-> e] :
        t \in {1, 2}, r \in {1, 2}, e \in {<<1, 2, 3>>, <<4, 5, 6>>, <<1, 4, 5>>}}

ScheduleChoices ==
    UNION {{List(f) : f \in [1..n -> AssignmentChoices]} : n \in 0..MaxSchedule}

\* at most this many infeasible items in a Solution passed to the analysis
MaxInfeasible == 2

\* a committed assignment of a Solution passed to the analysis
MakeResult(k, score) ==
    [exam_id |-> k, student_name |-> k, timeslot_id |-> k, room_id |-> 1,
     assigned_examiners |-> <<1>>, total_score |-> score,
     criteria_scores |-> [examiner_quality |-> score, room_suitability |-> score,
                          combined_score |-> score]]

\* Solutions: committed assignments with the scores of a score list, followed by
\* 0..MaxInfeasible infeasible items
SolutionChoices ==
    {[schedule |-> List([k \in 1..Len(s) |-> MakeResult(k, s[k])]),
      method_used |-> "SAW",
      total_satisfaction |-> IF s = <<>> THEN 0 ELSE FMean(s),
      criteria_weights |-> ZipDict(List([j \in 1..Len(DefaultCriteria) |->
                                            DefaultCriteria[j].name]),
                                   NormalizeWeights(DefaultCriteria)),
      infeasible_exams |-> List([k \in 1..i |-> Len(s) + k])] :
        s \in ScoreLists, i \in 0..MaxInfeasible}

VARIABLES
    students, examiners, rooms, timeslots, exam_sessions, criteria,
    method, pc,
    sorted_sessions, session_idx, timeslot_idx,
    selected_examiners, best_schedule, best_score,
    schedule, infeasible_exams, total_satisfaction, solution,
    runs, start_workload, first_workload, first_solution, request_examiners,
    api_call

inputs == <<students, rooms, timeslots, exam_sessions, criteria>>

locals == <<sorted_sessions, session_idx, timeslot_idx, selected_examiners,
            best_schedule, best_score, schedule, infeasible_exams,
            total_satisfaction, solution>>

history == <<runs, start_workload, first_workload, first_solution, request_examiners>>

vars == <<students, examiners, rooms, timeslots, exam_sessions, criteria,
          method, pc, sorted_sessions, session_idx, timeslot_idx,
          selected_examiners, best_schedule, best_score,
          schedule, infeasible_exams, total_satisfaction, solution,
          runs, start_workload, first_workload, first_solution, request_examiners,
          api_call>>

\* Python's None
None == [none |-> TRUE]

\* no method of the MCDM engine has been called directly
NoCall == [op |-> "none"]

Workloads(examinerList) == List([i \in 1..Len(examinerList) |-> examinerList[i].workload])

Init ==
    /\ examiners \in {[i \in ExaminerIds |-> MakeExaminer(i, a[i], w[i])] :
                         a \in AvailabilityChoices, w \in WorkloadChoices}
    /\ students \in {[i \in 1..NumStudents |-> MakeStudent(i, sup[i])] :
                         sup \in SupervisorChoices}
    /\ rooms \in {[i \in 1..NumRooms |-> MakeRoom(i, q[i])] : q \in QualityChoices}
    /\ timeslots = [i \in TimeslotIds |-> [id |-> i]]
    /\ exam_sessions \in {[i \in 1..NumSessions |-> MakeSession(i, sid[i], req[i], prio[i])] :
                         sid \in StudentIdChoices,
                         req \in RequiredChoices,
                         prio \in PriorityChoices}
    /\ criteria = DefaultCriteria
    /\ method = "SAW"
    /\ pc = "idle"
    /\ sorted_sessions = <<>>
    /\ session_idx = 1
    /\ timeslot_idx = 1
    /\ selected_examiners = <<>>
    /\ best_schedule = None
    /\ best_score = -Scale
    /\ schedule = <<>>
    /\ infeasible_exams = <<>>
    /\ total_satisfaction = 0
    /\ solution = None
    /\ runs = 0
    /\ start_workload = Workloads(examiners)
    /\ first_workload = Workloads(examiners)
    /\ first_solution = None
    /\ request_examiners = examiners
    /\ api_call = NoCall

(***************************************************************************)
(* scheduling_engine.py: generate_schedule, as steps                       *)
(***************************************************************************)
\* reverse=True left out: ascending
RECURSIVE SortedAscending(_)
SortedAscending(s) ==
    IF s = <<>> THEN <<>>
    ELSE LET rest == SortedAscending(SubSeq(s, 1, Len(s) - 1))
             x == s[Len(s)]
             ahead == {k \in 1..Len(rest) : x.priority < rest[k].priority}
             pos == IF ahead = {} THEN Len(rest) + 1
                    ELSE CHOOSE k \in ahead : \A m \in ahead : k <= m
         IN SubSeq(rest, 1, pos - 1) \o <<x>> \o SubSeq(rest, pos, Len(rest))

\* sorted(exam_sessions, key=priority, reverse=True): stable, descending
RECURSIVE SortedSessions(_)
SortedSessions(s) ==
    IF s = <<>> THEN <<>>
    ELSE LET rest == SortedSessions(SubSeq(s, 1, Len(s) - 1))
             x == s[Len(s)]
             ahead == {k \in 1..Len(rest) : x.priority > rest[k].priority}
             pos == IF ahead = {} THEN Len(rest) + 1
                    ELSE CHOOSE k \in ahead : \A m \in ahead : k <= m
         IN SubSeq(rest, 1, pos - 1) \o <<x>> \o SubSeq(rest, pos, Len(rest))

\* list.sort() written for sorted(): the caller's list is sorted in place
CallerSessionsSortedInPlace(s) == SortedSessions(s)

\* sorted() builds a new list: the caller's list is left as it was
CallerSessionsAfterSort(s) == s

\* student_lookup.get(student_id)
StudentLookup(studentList, student_id) ==
    IF \E i \in 1..Len(studentList) : studentList[i].id = student_id
    THEN studentList[CHOOSE i \in 1..Len(studentList) :
                        /\ studentList[i].id = student_id
                        /\ \A k \in (i + 1)..Len(studentList) :
                               studentList[k].id # student_id]
    ELSE None

CurrentSession == sorted_sessions[session_idx]

CurrentStudent == StudentLookup(students, CurrentSession.student_id)

\* ">=" written for ">"
IsBetterOrEqual(combined_score, best) ==
    ~IsNaN(combined_score) /\ ~IsNaN(best) /\ combined_score >= best

\* combined_score > best_score
IsBetter(combined_score, best) == FGt(combined_score, best)

PotentialResult(session, student, timeslot, room, selected) ==
    LET room_score == EvaluateRoomSuitability(room, 10)
        examiner_ids == List([k \in 1..Len(selected) |-> selected[k].examiner.id])
        examiner_score == FMean(List([k \in 1..Len(selected) |-> selected[k].score]))
        combined_score == FAdd(FMul(examiner_score, 700), FMul(room_score, 300))
    IN [exam_id |-> session.id,
        student_name |-> student.name,
        timeslot_id |-> timeslot.id,
        room_id |-> room.id,
        assigned_examiners |-> examiner_ids,
        total_score |-> combined_score,
        criteria_scores |-> [examiner_quality |-> examiner_score,
                             room_suitability |-> room_score,
                             combined_score |-> combined_score]]

\* the loop "for room in rooms" from room k on; best = <<best_schedule, best_score>>
RECURSIVE RoomLoop(_, _, _, _, _, _, _, _)
RoomLoop(k, roomList, sched, session, student, timeslot, selected, best) ==
    IF k > Len(roomList) THEN best
    ELSE LET potential_result ==
                 PotentialResult(session, student, timeslot, roomList[k], selected)
             next == IF /\ CheckSchedulingConstraints(sched, potential_result)
                        /\ IsBetter(potential_result.total_score, best[2])
                     THEN <<potential_result, potential_result.total_score>>
                     ELSE best
         IN RoomLoop(k + 1, roomList, sched, session, student, timeslot, selected, next)

\* the identity test left out: every examiner is charged
UpdateAllWorkloads(examinerList, assigned) ==
    IF assigned = <<>> THEN examinerList
    ELSE List([i \in 1..Len(examinerList) |->
                 [examinerList[i] EXCEPT !.workload = @ + 1]])

\* examiner.workload += 1 for the first examiner carrying each assigned id
RECURSIVE UpdateWorkloads(_, _)
UpdateWorkloads(examinerList, assigned) ==
    IF assigned = <<>> THEN examinerList
    ELSE LET hits == {i \in 1..Len(examinerList) : examinerList[i].id = Head(assigned)}
             updated ==
                 IF hits = {} THEN examinerList
                 ELSE LET i == CHOOSE i \in hits : \A k \in hits : i <= k
                      IN [examinerList EXCEPT ![i].workload = @ + 1]
         IN UpdateWorkloads(updated, Tail(assigned))

\* infeasible_exams.append(session.id) for a session without a student
RecordUnknownStudent(infeasible, session) == Append(infeasible, session.id)

\* the append left out
RecordNothing(infeasible, session) == infeasible

\* infeasible_exams.append(session.id) for a session without a feasible slot
RecordInfeasible(infeasible, session) == Append(infeasible, session.id)

\* the call: lines 232-244
Start ==
    /\ pc \in {"idle", "returned", "raised"}
    /\ runs < MaxRuns
    /\ \E m \in MethodChoices : method' = IF runs = 0 THEN m ELSE method
    /\ schedule' = <<>>
    /\ infeasible_exams' = <<>>
    /\ total_satisfaction' = 0
    /\ sorted_sessions' = SortedSessions(exam_sessions)
    /\ exam_sessions' = CallerSessionsAfterSort(exam_sessions)
    /\ session_idx' = 1
    /\ timeslot_idx' = 1
    /\ selected_examiners' = <<>>
    /\ best_schedule' = None
    /\ best_score' = -Scale
    /\ solution' = None
    /\ pc' = "sessions"
    /\ runs' = runs + 1
    /\ start_workload' = Workloads(examiners)
    /\ first_workload' = IF runs = 0 THEN Workloads(examiners) ELSE first_workload
    /\ UNCHANGED <<students, examiners, rooms, timeslots, criteria,
                   first_solution, request_examiners, api_call>>

\* the examiner objects of the previous call passed again
StartWithUsedExaminers ==
    /\ pc \in {"idle", "returned", "raised"}
    /\ runs < MaxRuns
    /\ \E m \in MethodChoices : method' = IF runs = 0 THEN m ELSE method
    /\ schedule' = <<>>
    /\ infeasible_exams' = <<>>
    /\ total_satisfaction' = 0
    /\ sorted_sessions' = SortedSessions(exam_sessions)
    /\ session_idx' = 1
    /\ timeslot_idx' = 1
    /\ selected_examiners' = <<>>
    /\ best_schedule' = None
    /\ best_score' = -Scale
    /\ solution' = None
    /\ pc' = "sessions"
    /\ runs' = runs + 1
    /\ start_workload' = Workloads(examiners)
    /\ first_workload' = IF runs = 0 THEN Workloads(examiners) ELSE first_workload
    /\ UNCHANGED <<students, examiners, rooms, timeslots, exam_sessions, criteria,
                   first_solution, request_examiners, api_call>>

\* the call made with examiner objects built for it, as the /schedule endpoint
\* builds them from each request: a repeated call starts from unmutated copies
StartFresh ==
    /\ pc \in {"idle", "returned", "raised"}
    /\ runs < MaxRuns
    /\ \E m \in MethodChoices : method' = IF runs = 0 THEN m ELSE method
    /\ examiners' = request_examiners
    /\ schedule' = <<>>
    /\ infeasible_exams' = <<>>
    /\ total_satisfaction' = 0
    /\ sorted_sessions' = SortedSessions(exam_sessions)
    /\ exam_sessions' = CallerSessionsAfterSort(exam_sessions)
    /\ session_idx' = 1
    /\ timeslot_idx' = 1
    /\ selected_examiners' = <<>>
    /\ best_schedule' = None
    /\ best_score' = -Scale
    /\ solution' = None
    /\ pc' = "sessions"
    /\ runs' = runs + 1
    /\ start_workload' = Workloads(request_examiners)
    /\ first_workload' = IF runs = 0 THEN Workloads(request_examiners) ELSE first_workload
    /\ UNCHANGED <<students, rooms, timeslots, criteria,
                   first_solution, request_examiners, api_call>>

\* student_lookup[session.student_id] in place of .get: the call ends with KeyError
RaiseOnUnknownStudent ==
    /\ pc = "sessions"
    /\ session_idx <= Len(sorted_sessions)
    /\ CurrentStudent = None
    /\ pc' = "raised"
    /\ UNCHANGED <<inputs, api_call, examiners, method, locals, history>>

\* lines 246-250: the session's student is unknown
SkipUnknownStudent ==
    /\ pc = "sessions"
    /\ session_idx <= Len(sorted_sessions)
    /\ CurrentStudent = None
    /\ infeasible_exams' = RecordUnknownStudent(infeasible_exams, CurrentSession)
    /\ session_idx' = session_idx + 1
    /\ UNCHANGED <<inputs, api_call, examiners, method, pc, sorted_sessions, timeslot_idx,
                   selected_examiners, best_schedule, best_score, schedule,
                   total_satisfaction, solution, history>>

\* lines 246-253: the session's student is known
BeginSession ==
    /\ pc = "sessions"
    /\ session_idx <= Len(sorted_sessions)
    /\ CurrentStudent # None
    /\ best_schedule' = None
    /\ best_score' = -Scale
    /\ timeslot_idx' = 1
    /\ pc' = "timeslots"
    /\ UNCHANGED <<inputs, api_call, examiners, method, sorted_sessions, session_idx,
                   selected_examiners, schedule, infeasible_exams,
                   total_satisfaction, solution, history>>

Selection ==
    SelectBestExaminers(CurrentStudent, examiners, timeslots[timeslot_idx].id,
                        CurrentSession.required_examiners, criteria, method)

\* lines 256-296: one iteration of "for timeslot in timeslots"; when the engine
\* raises inside the selection (line 164 -> mcdm_methods.py line 203) the call ends
TryTimeslot ==
    /\ pc = "timeslots"
    /\ timeslot_idx <= Len(timeslots)
    /\ LET sel == Selection
       IN IF sel.raised
          THEN /\ pc' = "raised"
               /\ UNCHANGED <<timeslot_idx, selected_examiners, best_schedule, best_score>>
          ELSE /\ pc' = pc
               /\ timeslot_idx' = timeslot_idx + 1
               /\ selected_examiners' = sel.result
               /\ LET best == IF Len(sel.result) < CurrentSession.required_examiners
                              THEN <<best_schedule, best_score>>
                              ELSE RoomLoop(1, rooms, schedule, CurrentSession,
                                            CurrentStudent, timeslots[timeslot_idx],
                                            sel.result, <<best_schedule, best_score>>)
                  IN /\ best_schedule' = best[1]
                     /\ best_score' = best[2]
    /\ UNCHANGED <<inputs, api_call, examiners, method, sorted_sessions, session_idx,
                   schedule, infeasible_exams, total_satisfaction, solution, history>>

\* first fit: the candidate found so far is committed before the remaining
\* timeslots are tried
CommitFirstFit ==
    /\ pc = "timeslots"
    /\ timeslot_idx > 1
    /\ best_schedule # None
    /\ schedule' = Append(schedule, best_schedule)
    /\ total_satisfaction' = FAdd(total_satisfaction, best_score)
    /\ examiners' = UpdateWorkloads(examiners, best_schedule.assigned_examiners)
    /\ session_idx' = session_idx + 1
    /\ pc' = "sessions"
    /\ UNCHANGED <<inputs, api_call, method, sorted_sessions, timeslot_idx, selected_examiners,
                   best_schedule, best_score, infeasible_exams, solution, history>>

\* the assignment committed takes the place of the earlier ones
CommitReplacing ==
    /\ pc = "timeslots"
    /\ timeslot_idx > Len(timeslots)
    /\ best_schedule # None
    /\ schedule' = <<best_schedule>>
    /\ total_satisfaction' = FAdd(total_satisfaction, best_score)
    /\ examiners' = UpdateWorkloads(examiners, best_schedule.assigned_examiners)
    /\ session_idx' = session_idx + 1
    /\ pc' = "sessions"
    /\ UNCHANGED <<inputs, api_call, method, sorted_sessions, timeslot_idx, selected_examiners,
                   best_schedule, best_score, infeasible_exams, solution, history>>

\* lines 298-309
Commit ==
    /\ pc = "timeslots"
    /\ timeslot_idx > Len(timeslots)
    /\ best_schedule # None
    /\ schedule' = Append(schedule, best_schedule)
    /\ total_satisfaction' = FAdd(total_satisfaction, best_score)
    /\ examiners' = UpdateWorkloads(examiners, best_schedule.assigned_examiners)
    /\ session_idx' = session_idx + 1
    /\ pc' = "sessions"
    /\ UNCHANGED <<inputs, api_call, method, sorted_sessions, timeslot_idx, selected_examiners,
                   best_schedule, best_score, infeasible_exams, solution, history>>

\* an item without a feasible combination is not recorded but tried again
RetryInfeasible ==
    /\ pc = "timeslots"
    /\ timeslot_idx > Len(timeslots)
    /\ best_schedule = None
    /\ pc' = "sessions"
    /\ UNCHANGED <<inputs, api_call, examiners, method, sorted_sessions, session_idx,
                   timeslot_idx, selected_examiners, best_schedule, best_score, schedule,
                   infeasible_exams, total_satisfaction, solution, history>>

\* lines 310-312
MarkInfeasible ==
    /\ pc = "timeslots"
    /\ timeslot_idx > Len(timeslots)
    /\ best_schedule = None
    /\ infeasible_exams' = RecordInfeasible(infeasible_exams, CurrentSession)
    /\ session_idx' = session_idx + 1
    /\ pc' = "sessions"
    /\ UNCHANGED <<inputs, api_call, examiners, method, sorted_sessions, timeslot_idx,
                   selected_examiners, best_schedule, best_score, schedule,
                   total_satisfaction, solution, history>>

FinalWeights ==
    EvaluateAlternatives(<<List([j \in 1..Len(criteria) |-> Scale])>>, criteria, method)

\* lines 314-328: the loop is over and the engine accepts the method
Return ==
    /\ pc = "sessions"
    /\ session_idx > Len(sorted_sessions)
    /\ ~FinalWeights.raised
    /\ solution' = [schedule |-> schedule,
                    method_used |-> method,
                    total_satisfaction |->
                        IF schedule # <<>>
                        THEN FDiv(total_satisfaction, Len(schedule) * Scale)
                        ELSE 0,
                    criteria_weights |-> FinalWeights.criteria_weights_dict,
                    infeasible_exams |-> infeasible_exams]
    /\ pc' = "returned"
    /\ first_solution' = IF runs = 1 THEN solution' ELSE first_solution
    /\ UNCHANGED <<inputs, api_call, examiners, method, sorted_sessions, session_idx,
                   timeslot_idx, selected_examiners, best_schedule, best_score,
                   schedule, infeasible_exams, total_satisfaction,
                   runs, start_workload, first_workload, request_examiners>>

\* lines 318-320 -> mcdm_methods.py line 203: the engine raises after the loop
RaiseAtEnd ==
    /\ pc = "sessions"
    /\ session_idx > Len(sorted_sessions)
    /\ FinalWeights.raised
    /\ pc' = "raised"
    /\ UNCHANGED <<inputs, api_call, examiners, method, locals, history>>

Next ==
    \/ Start
    \/ SkipUnknownStudent
    \/ BeginSession
    \/ TryTimeslot
    \/ Commit
    \/ MarkInfeasible
    \/ Return
    \/ RaiseAtEnd

Spec == Init /\ [][Next]_vars

\* the end-to-end scenario: one student, three examiners all available at the
\* single timeslot, one of them the supervisor, one room, one session that
\* requires three examiners; the examiners' loads vary
InitEndToEnd ==
    /\ examiners \in {[i \in 1..3 |-> MakeExaminer(i, {1}, w[i])] :
                         w \in [1..3 -> {0, 1, 2}]}
    /\ students \in {<<MakeStudent(1, sup)>> : sup \in 1..3}
    /\ rooms = <<MakeRoom(1, 4000)>>
    /\ timeslots = <<[id |-> 1]>>
    /\ exam_sessions = <<MakeSession(1, 1, 3, 1000)>>
    /\ criteria = DefaultCriteria
    /\ method = "SAW"
    /\ pc = "idle"
    /\ sorted_sessions = <<>>
    /\ session_idx = 1
    /\ timeslot_idx = 1
    /\ selected_examiners = <<>>
    /\ best_schedule = None
    /\ best_score = -Scale
    /\ schedule = <<>>
    /\ infeasible_exams = <<>>
    /\ total_satisfaction = 0
    /\ solution = None
    /\ runs = 0
    /\ start_workload = Workloads(examiners)
    /\ first_workload = Workloads(examiners)
    /\ first_solution = None
    /\ request_examiners = examiners
    /\ api_call = NoCall

NextEndToEnd ==
    \/ StartFresh
    \/ BeginSession
    \/ TryTimeslot
    \/ Commit
    \/ MarkInfeasible
    \/ Return

SpecEndToEnd == InitEndToEnd /\ [][NextEndToEnd]_vars

\* fewer rooms than exam sessions
NumFewRooms == NumSessions - 1

\* the scheduler with fewer rooms than exam sessions: the sessions compete for
\* the rooms of a timeslot; the examiners arrive without load and the rooms are
\* of equal quality
InitFewRooms ==
    /\ examiners \in {[i \in ExaminerIds |-> MakeExaminer(i, a[i], 0)] :
                         a \in AvailabilityChoices}
    /\ students \in {[i \in 1..NumStudents |-> MakeStudent(i, sup[i])] :
                         sup \in SupervisorChoices}
    /\ rooms = [i \in 1..NumFewRooms |-> MakeRoom(i, 4000)]
    /\ timeslots = [i \in TimeslotIds |-> [id |-> i]]
    /\ exam_sessions \in {[i \in 1..NumSessions |-> MakeSession(i, sid[i], req[i], prio[i])] :
                         sid \in StudentIdChoices,
                         req \in RequiredChoices,
                         prio \in PriorityChoices}
    /\ criteria = DefaultCriteria
    /\ method = "SAW"
    /\ pc = "idle"
    /\ sorted_sessions = <<>>
    /\ session_idx = 1
    /\ timeslot_idx = 1
    /\ selected_examiners = <<>>
    /\ best_schedule = None
    /\ best_score = -Scale
    /\ schedule = <<>>
    /\ infeasible_exams = <<>>
    /\ total_satisfaction = 0
    /\ solution = None
    /\ runs = 0
    /\ start_workload = Workloads(examiners)
    /\ first_workload = Workloads(examiners)
    /\ first_solution = None
    /\ request_examiners = examiners
    /\ api_call = NoCall

SpecFewRooms == InitFewRooms /\ [][Next]_vars

\* direct calls of the engines' operations, one at a time, next to a scheduler
\* that is not running
InitEngine ==
    /\ examiners = [i \in ExaminerIds |-> MakeExaminer(i, TimeslotIds, 0)]
    /\ students = [i \in 1..NumStudents |-> MakeStudent(i, 1)]
    /\ rooms = [i \in 1..NumRooms |-> MakeRoom(i, 4000)]
    /\ timeslots = [i \in TimeslotIds |-> [id |-> i]]
    /\ exam_sessions = [i \in 1..NumSessions |-> MakeSession(i, i, 1, 1000)]
    /\ criteria = DefaultCriteria
    /\ method = "SAW"
    /\ pc = "idle"
    /\ sorted_sessions = <<>>
    /\ session_idx = 1
    /\ timeslot_idx = 1
    /\ selected_examiners = <<>>
    /\ best_schedule = None
    /\ best_score = -Scale
    /\ schedule = <<>>
    /\ infeasible_exams = <<>>
    /\ total_satisfaction = 0
    /\ solution = None
    /\ runs = 0
    /\ start_workload = Workloads(examiners)
    /\ first_workload = Workloads(examiners)
    /\ first_solution = None
    /\ request_examiners = examiners
    /\ api_call = NoCall

\* mcdm_engine.calculate_ahp_weights(ahp_matrix)
CalculateAHPWeightsCall ==
    /\ api_call = NoCall
    /\ \E matrix \in PairwiseMatrices, eig_sign \in {1, -1} :
           api_call' = [op |-> "calculate_ahp_weights", arg |-> matrix,
                        eig_sign |-> eig_sign,
                        result |-> CalculateAHPWeights(matrix, eig_sign)]
    /\ UNCHANGED <<inputs, examiners, method, pc, locals, history>>

\* mcdm_engine.evaluate_alternatives(decision_matrix, criteria, method)
EvaluateAlternativesCall ==
    /\ api_call = NoCall
    /\ \E decision_matrix \in DecisionMatrices, crit \in CriteriaChoices,
          m \in MethodChoices :
           api_call' = [op |-> "evaluate_alternatives",
                        arg |-> [decision_matrix |-> decision_matrix,
                                 criteria |-> crit, method |-> m],
                        result |-> EvaluateAlternatives(decision_matrix, crit, m)]
    /\ UNCHANGED <<inputs, examiners, method, pc, locals, history>>

\* mcdm_engine.rank_alternatives(scores)
RankAlternativesCall ==
    /\ api_call = NoCall
    /\ \E scores \in ScoreLists :
           api_call' = [op |-> "rank_alternatives", arg |-> scores,
                        result |-> RankAlternatives(scores)]
    /\ UNCHANGED <<inputs, examiners, method, pc, locals, history>>

\* dss_engine.analyze_schedule_quality(solution)
AnalyzeScheduleQualityCall ==
    /\ api_call = NoCall
    /\ \E sol \in SolutionChoices :
           api_call' = [op |-> "analyze_schedule_quality", arg |-> sol,
                        result |-> AnalyzeScheduleQuality(sol)]
    /\ UNCHANGED <<inputs, examiners, method, pc, locals, history>>

\* dss.check_scheduling_constraints(schedule, new_exam); the function assigns to
\* neither argument nor to anything reachable from them (set() builds new sets),
\* so the caller finds both as they were passed
CheckSchedulingConstraintsCall ==
    /\ api_call = NoCall
    /\ \E sched \in ScheduleChoices, new_exam \in AssignmentChoices :
           api_call' = [op |-> "check_scheduling_constraints",
                        arg |-> [schedule |-> sched, new_exam |-> new_exam],
                        result |-> CheckSchedulingConstraints(sched, new_exam),
                        after |-> [schedule |-> sched, new_exam |-> new_exam]]
    /\ UNCHANGED <<inputs, examiners, method, pc, locals, history>>

\* the caller has taken the result; the engine keeps nothing of a call
CallReturned ==
    /\ api_call # NoCall
    /\ api_call' = NoCall
    /\ UNCHANGED <<inputs, examiners, method, pc, locals, history>>

NextEngine ==
    \/ CalculateAHPWeightsCall
    \/ EvaluateAlternativesCall
    \/ AnalyzeScheduleQualityCall
    \/ CheckSchedulingConstraintsCall
    \/ RankAlternativesCall
    \/ CallReturned

SpecEngine == InitEngine /\ [][NextEngine]_vars

\* repeated requests to the service: every call gets fresh examiner objects
NextRerun ==
    \/ StartFresh
    \/ SkipUnknownStudent
    \/ BeginSession
    \/ TryTimeslot
    \/ Commit
    \/ MarkInfeasible
    \/ Return
    \/ RaiseAtEnd

SpecRerun == Init /\ [][NextRerun]_vars

(***************************************************************************)
(* Properties                                                              *)
(***************************************************************************)
\* position of a work item in the caller's list
InputIndex(exam_id) == CHOOSE i \in 1..Len(exam_sessions) : exam_sessions[i].id = exam_id

SessionOfExam(exam_id) == exam_sessions[InputIndex(exam_id)]

SupervisorOfExam(exam_id) ==
    StudentLookup(students, SessionOfExam(exam_id).student_id).supervisor_id

\* C1: any two committed assignments that share a slot have different rooms and
\* disjoint examiner sets, after every step of a run
ConflictInvariant ==
    \A i \in 1..Len(schedule) : \A j \in (i + 1)..Len(schedule) :
        schedule[i].timeslot_id = schedule[j].timeslot_id =>
            /\ schedule[i].room_id # schedule[j].room_id
            /\ Range(schedule[i].assigned_examiners)
                   \cap Range(schedule[j].assigned_examiners) = {}

\* two assignments are committed in one slot
ConflictWitness ==
    /\ Len(schedule) = 2
    /\ schedule[1].timeslot_id = schedule[2].timeslot_id

SelectedIds == {selected_examiners[k].examiner.id : k \in 1..Len(selected_examiners)}

\* C2: the supervisor of the student is among the examiners of every committed
\* assignment and of every non-empty result of select_best_examiners
MandatoryEvaluatorInvariant ==
    /\ \A k \in 1..Len(schedule) :
           SupervisorOfExam(schedule[k].exam_id) \in Range(schedule[k].assigned_examiners)
    /\ (pc = "timeslots" /\ timeslot_idx > 1 /\ selected_examiners # <<>>)
           => CurrentStudent.supervisor_id \in SelectedIds

\* an assignment is committed and the last selection of the current item is not empty
MandatoryEvaluatorWitness ==
    /\ schedule # <<>>
    /\ pc = "timeslots"
    /\ timeslot_idx > 1
    /\ Len(selected_examiners) > 1

\* C3: when the call returns, every work item is in exactly one of the schedule
\* and the infeasible list
PartitionAtReturn ==
    pc = "returned" =>
        /\ Len(solution.schedule) + Len(solution.infeasible_exams) = Len(exam_sessions)
        /\ \A i \in 1..Len(exam_sessions) :
               Cardinality({k \in 1..Len(solution.schedule) :
                               solution.schedule[k].exam_id = exam_sessions[i].id})
               + Cardinality({k \in 1..Len(solution.infeasible_exams) :
                               solution.infeasible_exams[k] = exam_sessions[i].id}) = 1

\* a call returned with one item committed and another infeasible for lack of a slot
PartitionWitness ==
    /\ pc = "returned"
    /\ Len(solution.schedule) = 1
    /\ Len(solution.infeasible_exams) = 1
    /\ StudentLookup(students, SessionOfExam(solution.infeasible_exams[1]).student_id) # None

\* C4: every committed assignment has exactly as many examiners as its work
\* item requires
ExaminerCountMatchesRequired ==
    \A k \in 1..Len(schedule) :
        Len(schedule[k].assigned_examiners)
            = SessionOfExam(schedule[k].exam_id).required_examiners

\* work item a is processed before work item b (input positions)
Before(a, b) ==
    \/ exam_sessions[a].priority > exam_sessions[b].priority
    \/ exam_sessions[a].priority = exam_sessions[b].priority /\ a < b

ProcessedIndices ==
    {InputIndex(schedule[k].exam_id) : k \in 1..Len(schedule)}
        \cup {InputIndex(infeasible_exams[k]) : k \in 1..Len(infeasible_exams)}

\* C5: work items are processed by descending priority, equal priorities in input
\* order, and the schedule and the infeasible list follow that order
ProcessingOrder ==
    /\ \A a \in ProcessedIndices : \A b \in (1..Len(exam_sessions)) \ ProcessedIndices :
           Before(a, b)
    /\ pc = "timeslots" =>
           /\ InputIndex(CurrentSession.id) \notin ProcessedIndices
           /\ \A b \in (1..Len(exam_sessions)) \ ProcessedIndices :
                  b # InputIndex(CurrentSession.id) => Before(InputIndex(CurrentSession.id), b)
    /\ \A i \in 1..Len(schedule) : \A j \in (i + 1)..Len(schedule) :
           Before(InputIndex(schedule[i].exam_id), InputIndex(schedule[j].exam_id))
    /\ \A i \in 1..Len(infeasible_exams) : \A j \in (i + 1)..Len(infeasible_exams) :
           Before(InputIndex(infeasible_exams[i]), InputIndex(infeasible_exams[j]))

\* the item given later was committed first, for its higher priority
ProcessingOrderWitness ==
    /\ Len(schedule) >= 2
    /\ InputIndex(schedule[1].exam_id) > InputIndex(schedule[2].exam_id)

\* the slot x room combinations of the current work item, in iteration order
Combos == {<<t, r>> : t \in 1..Len(timeslots), r \in 1..Len(rooms)}

ComboBefore(c, d) == c[1] < d[1] \/ (c[1] = d[1] /\ c[2] < d[2])

\* two assignments conflict: one slot, and the same room or a common examiner
Conflicts(a, b) ==
    /\ a.timeslot_id = b.timeslot_id
    /\ \/ a.room_id = b.room_id
       \/ Range(a.assigned_examiners) \cap Range(b.assigned_examiners) # {}

\* for every combination of the current work item: its candidate assignment, and
\* whether it has a full examiner selection and conflicts with no commitment
ComboTable ==
    List([t \in 1..Len(timeslots) |->
        LET sel == SelectBestExaminers(CurrentStudent, examiners, timeslots[t].id,
                                       CurrentSession.required_examiners, criteria, method)
        IN List([r \in 1..Len(rooms) |->
               LET result == PotentialResult(CurrentSession, CurrentStudent,
                                             timeslots[t], rooms[r], sel.result)
               IN [result |-> result,
                   feasible |->
                       /\ ~sel.raised
                       /\ Len(sel.result) >= CurrentSession.required_examiners
                       /\ \A k \in 1..Len(schedule) : ~Conflicts(schedule[k], result)]])])

AllCombosEvaluated == pc = "timeslots" /\ timeslot_idx > Len(timeslots)

IsFirstBest(committed) ==
    LET table == ComboTable
    IN \E c \in Combos :
           /\ table[c[1]][c[2]].feasible
           /\ table[c[1]][c[2]].result = committed
           /\ \A d \in Combos :
                  table[d[1]][d[2]].feasible =>
                      /\ ~FGt(table[d[1]][d[2]].result.total_score, committed.total_score)
                      /\ table[d[1]][d[2]].result.total_score = committed.total_score =>
                             (d = c \/ ComboBefore(c, d))

\* C6: the committed combination is a feasible one of highest combined score,
\* and the first of these in slot-then-room order
BestCombinationCommitted ==
    [][Len(schedule') = Len(schedule) + 1 => IsFirstBest(schedule'[Len(schedule')])]_vars

\* all combinations are evaluated and a later feasible combination ties with the best
BestCombinationWitness ==
    /\ AllCombosEvaluated
    /\ best_schedule # None
    /\ LET table == ComboTable
       IN \E d \in Combos :
              /\ table[d[1]][d[2]].feasible
              /\ table[d[1]][d[2]].result # best_schedule
              /\ table[d[1]][d[2]].result.total_score = best_schedule.total_score

\* C7: a work item with a feasible combination is committed, whatever the scores
FeasibleIsCommitted ==
    (AllCombosEvaluated /\ \E c \in Combos : ComboTable[c[1]][c[2]].feasible)
        => best_schedule # None

CountAssignments(examiner_id) ==
    Cardinality({k \in 1..Len(schedule) :
                    examiner_id \in Range(schedule[k].assigned_examiners)})

LoadStep ==
    \A i \in 1..Len(examiners) :
        IF Len(schedule') = Len(schedule) + 1
        THEN examiners'[i].workload = examiners[i].workload +
                 (IF examiners[i].id \in Range(schedule'[Len(schedule')].assigned_examiners)
                  THEN 1 ELSE 0)
        ELSE examiners'[i].workload >= examiners[i].workload

LoadTotal ==
    pc # "idle" =>
        \A i \in 1..Len(examiners) :
            examiners[i].workload = start_workload[i] + CountAssignments(examiners[i].id)

\* C8: a commit adds one to the load of each examiner it assigns and leaves the
\* others; loads never decrease; a load is its value at the start of the run plus
\* the number of committed assignments naming the examiner
LoadAccounting == [][LoadStep /\ LoadTotal']_vars

\* a run returned having charged one examiner and spared another
LoadAccountingWitness ==
    /\ pc = "returned"
    /\ \E i \in 1..Len(examiners) : examiners[i].workload > start_workload[i]
    /\ \E i \in 1..Len(examiners) : examiners[i].workload = start_workload[i]

WithoutLoad(examiner) == [examiner EXCEPT !.workload = 0]

FrameStep ==
    /\ students' = students
    /\ rooms' = rooms
    /\ timeslots' = timeslots
    /\ exam_sessions' = exam_sessions
    /\ criteria' = criteria
    /\ Len(examiners') = Len(examiners)
    /\ \A i \in 1..Len(examiners) : WithoutLoad(examiners'[i]) = WithoutLoad(examiners[i])
    /\ Len(infeasible_exams') = Len(infeasible_exams) + 1 => examiners' = examiners

\* C9: a run changes no input but the examiners' load counters, and recording an
\* item as infeasible changes no load counter
OnlyLoadChanges == [][FrameStep]_vars

\* within one run an item was recorded infeasible and a load counter has grown
OnlyLoadChangesWitness ==
    /\ pc \in {"sessions", "timeslots"}
    /\ infeasible_exams # <<>>
    /\ Workloads(examiners) # start_workload

\* C10: a second call with the same examiners starts from the loads the first
\* call started from
LoadNotPersisted == runs >= 2 => start_workload = first_workload

ScoringSeesEarlierLoads ==
    pc = "timeslots" =>
        \A i \in 1..Len(examiners) :
            examiners[i].workload = start_workload[i] + CountAssignments(examiners[i].id)

\* C12: while the combinations of a work item are evaluated the schedule and the
\* examiners' loads do not change; an assignment is appended and loads are charged
\* only when every combination of the item has been evaluated; so the scoring of
\* an item sees the loads left by all earlier items
NoEarlyCommit ==
    [][/\ (pc = "timeslots" /\ ~AllCombosEvaluated)
             => (schedule' = schedule /\ examiners' = examiners)
       /\ (Len(schedule') = Len(schedule) + 1 \/ examiners' # examiners)
             => AllCombosEvaluated
       /\ ScoringSeesEarlierLoads']_vars

\* an earlier item is committed, and the current item has a candidate from the
\* first timeslot while a timeslot is still to be tried
NoEarlyCommitWitness ==
    /\ pc = "timeslots"
    /\ ~AllCombosEvaluated
    /\ timeslot_idx > 1
    /\ best_schedule # None
    /\ schedule # <<>>

\* C13: a call with a method that is neither SAW nor TOPSIS in any letter case
\* never returns a Solution; it raises, and until it has raised no assignment is
\* committed and no load counter is changed
UnsupportedMethodFails ==
    (runs >= 1 /\ Upper(method) \notin {"SAW", "TOPSIS"}) =>
        /\ pc # "returned"
        /\ schedule = <<>>
        /\ Workloads(examiners) = start_workload
        /\ (pc = "sessions" /\ session_idx > Len(sorted_sessions)) => FinalWeights.raised

\* the call raised while it processed its second work item
UnsupportedMethodFailsWitness ==
    /\ pc = "raised"
    /\ session_idx = 2
    /\ Upper(method) \notin {"SAW", "TOPSIS"}

\* positions of the examiners available at a timeslot
AvailableAt(timeslot_id) ==
    {i \in 1..Len(examiners) : timeslot_id \in examiners[i].available_timeslots}

SupervisorAvailableAt(timeslot_id) ==
    \E i \in AvailableAt(timeslot_id) : examiners[i].id = CurrentStudent.supervisor_id

\* C14: when fewer examiners than required are available at the timeslot, or the
\* student's supervisor is not available at it, select_best_examiners returns the
\* empty list and raises nothing
EmptySelectionSignalsInfeasible ==
    [][(/\ pc = "timeslots"
        /\ timeslot_idx <= Len(timeslots)
        /\ \/ Cardinality(AvailableAt(timeslots[timeslot_idx].id))
                 < CurrentSession.required_examiners
           \/ ~SupervisorAvailableAt(timeslots[timeslot_idx].id))
          => /\ pc' = "timeslots"
             /\ timeslot_idx' = timeslot_idx + 1
             /\ selected_examiners' = <<>>]_vars

\* other examiners than the supervisor were available at the first timeslot, the
\* supervisor was not, and the selection came back empty; the method is one the
\* engine would have refused
EmptySelectionSignalsInfeasibleWitness ==
    /\ pc = "timeslots"
    /\ timeslot_idx = 2
    /\ selected_examiners = <<>>
    /\ AvailableAt(timeslots[1].id) # {}
    /\ ~SupervisorAvailableAt(timeslots[1].id)
    /\ Upper(method) \notin {"SAW", "TOPSIS"}

\* the available examiners other than the supervisor of the current item, in
\* list order, with the scores the engine gives them
RegularScores(timeslot_id) ==
    LET regs == SelectSeq(examiners,
                    LAMBDA e : /\ timeslot_id \in e.available_timeslots
                               /\ e.id # CurrentStudent.supervisor_id)
        matrix == List([i \in 1..Len(regs) |->
                      DecisionRow(regs[i], CurrentStudent, timeslot_id, criteria)])
    IN [ids |-> List([i \in 1..Len(regs) |-> regs[i].id]),
        scores |-> IF regs = <<>> THEN <<>>
                   ELSE EvaluateAlternatives(matrix, criteria, method).scores]

\* sel is the supervisor with the fixed score, then the required_count - 1 best
\* of the others, best first
IsMandatoryPlusBest(sel, reg, required_count, supervisor_id) ==
    /\ Len(sel) = required_count
    /\ sel[1].examiner.id = supervisor_id
    /\ sel[1].score = SupervisorScore
    /\ \A k \in 2..Len(sel) :
           \E i \in 1..Len(reg.ids) :
               reg.ids[i] = sel[k].examiner.id /\ reg.scores[i] = sel[k].score
    /\ \A j \in 2..Len(sel) : \A k \in (j + 1)..Len(sel) :
           /\ sel[j].examiner.id # sel[k].examiner.id
           /\ ~FGt(sel[k].score, sel[j].score)
    /\ \A i \in 1..Len(reg.ids) :
           (\A k \in 2..Len(sel) : sel[k].examiner.id # reg.ids[i])
               => \A k \in 2..Len(sel) : ~FGt(reg.scores[i], sel[k].score)

\* C15: with a supported method, when at least required_count >= 1 examiners are
\* available at the timeslot and the supervisor is one of them,
\* select_best_examiners returns required_count entries: the supervisor with
\* score 0.9, then the required_count - 1 best-scoring others in descending order
SelectionIsMandatoryPlusBest ==
    [][(/\ pc = "timeslots"
        /\ timeslot_idx <= Len(timeslots)
        /\ Upper(method) \in {"SAW", "TOPSIS"}
        /\ CurrentSession.required_examiners >= 1
        /\ Cardinality(AvailableAt(timeslots[timeslot_idx].id))
               >= CurrentSession.required_examiners
        /\ SupervisorAvailableAt(timeslots[timeslot_idx].id))
          => IsMandatoryPlusBest(selected_examiners',
                                 RegularScores(timeslots[timeslot_idx].id),
                                 CurrentSession.required_examiners,
                                 CurrentStudent.supervisor_id)]_vars

\* C16: in the end-to-end scenario a call with SAW or TOPSIS returns a Solution
\* with one committed assignment that names all three examiners, and no
\* infeasible item, whatever the examiners' loads
EndToEndCommitsAll ==
    pc = "returned" =>
        /\ Len(solution.schedule) = 1
        /\ Range(solution.schedule[1].assigned_examiners) = {1, 2, 3}
        /\ solution.infeasible_exams = <<>>

IsSquare(matrix) == \A i \in 1..Len(matrix) : Len(matrix[i]) = Len(matrix)

AllOnesRatioIsZero ==
    (/\ api_call.op = "calculate_ahp_weights"
     /\ IsSquare(api_call.arg)
     /\ \A i \in 1..Len(api_call.arg) : \A j \in 1..Len(api_call.arg) :
            api_call.arg[i][j] = Micro)
        => /\ ~api_call.result.raised
           /\ api_call.result.consistency_ratio = 0
           /\ api_call.result.is_consistent

SumOfWeights(crit) == FSum(List([j \in 1..Len(crit) |-> crit[j].weight]))

\* C19: for criteria whose weights sum to 1, the scores SAW and TOPSIS give are
\* numbers between 0 and 1
ScoresWithinUnitInterval ==
    (/\ api_call.op = "evaluate_alternatives"
     /\ ~api_call.result.raised
     /\ SumOfWeights(api_call.arg.criteria) = Scale) =>
        \A k \in 1..Len(api_call.result.scores) :
            /\ ~IsNaN(api_call.result.scores[k])
            /\ api_call.result.scores[k] >= 0
            /\ api_call.result.scores[k] <= Scale

\* C20: rank_alternatives returns the indices 0..len-1, each once, by descending
\* score, equal scores by ascending index; [0.8, 0.6, 0.9] gives [2, 0, 1]
RankIsStableDescending ==
    api_call.op = "rank_alternatives" =>
        LET scores == api_call.arg
            ranking == api_call.result
        IN /\ Len(ranking) = Len(scores)
           /\ Range(ranking) = 0..(Len(scores) - 1)
           /\ \A j \in 1..Len(ranking) : \A k \in (j + 1)..Len(ranking) :
                  \/ scores[ranking[j] + 1] > scores[ranking[k] + 1]
                  \/ /\ scores[ranking[j] + 1] = scores[ranking[k] + 1]
                     /\ ranking[j] < ranking[k]
           /\ scores = <<800, 600, 900>> => ranking = <<2, 0, 1>>

\* the list of the example, and a list with two equal scores, have been ranked
RankIsStableDescendingWitness ==
    /\ api_call.op = "rank_alternatives"
    /\ \/ api_call.arg = <<800, 600, 900>> /\ api_call.result = <<2, 0, 1>>
       \/ api_call.arg = <<800, 900, 800>> /\ api_call.result = <<1, 0, 2>>

\* sum of the values of a dict
RECURSIVE FSumOver(_, _)
FSumOver(d, keys) ==
    IF keys = {} THEN 0
    ELSE LET k == CHOOSE k \in keys : TRUE
         IN FAdd(d[k], FSumOver(d, keys \ {k}))

\* C21: the weight map evaluate_alternatives returns has one entry per criterion
\* and its values sum to 1, whatever the scale of the weights passed in
WeightMapSumsToOne ==
    (api_call.op = "evaluate_alternatives" /\ ~api_call.result.raised) =>
        LET d == api_call.result.criteria_weights_dict
        IN /\ DOMAIN d = {api_call.arg.criteria[j].name :
                             j \in 1..Len(api_call.arg.criteria)}
           /\ FSumOver(d, DOMAIN d) = Scale

\* C22: the analysis of every Solution has the metric success_rate, equal to
\* committed / (committed + infeasible), and 0 for a Solution without items
SuccessRateReported ==
    api_call.op = "analyze_schedule_quality" =>
        LET committed == Len(api_call.arg.schedule)
            infeasible == Len(api_call.arg.infeasible_exams)
        IN /\ "success_rate" \in DOMAIN api_call.result
           /\ api_call.result.success_rate =
                  IF committed + infeasible = 0 THEN 0
                  ELSE (committed * Scale) \div (committed + infeasible)

\* C23: check_scheduling_constraints returns False exactly when an assignment of
\* the schedule has the timeslot of the new one and its room or one of its
\* examiners; it returns True when no assignment has the new one's timeslot; both
\* arguments are left as they were
ConstraintCheckIsConflictFreedom ==
    api_call.op = "check_scheduling_constraints" =>
        LET sched == api_call.arg.schedule
            new_exam == api_call.arg.new_exam
        IN /\ api_call.result = FALSE <=>
                  \E k \in 1..Len(sched) :
                      /\ sched[k].timeslot_id = new_exam.timeslot_id
                      /\ \/ sched[k].room_id = new_exam.room_id
                         \/ \E e \in Range(sched[k].assigned_examiners) :
                                e \in Range(new_exam.assigned_examiners)
           /\ (\A k \in 1..Len(sched) : sched[k].timeslot_id # new_exam.timeslot_id)
                  => api_call.result = TRUE
           /\ api_call.after = api_call.arg

\* the new assignment was refused for an examiner it shares with the second
\* assignment of the schedule, in another room of the same timeslot, while the
\* first assignment of the schedule has its room and examiners at another timeslot
ConstraintCheckIsConflictFreedomWitness ==
    /\ api_call.op = "check_scheduling_constraints"
    /\ api_call.result = FALSE
    /\ Len(api_call.arg.schedule) = 2
    /\ api_call.arg.schedule[1].timeslot_id # api_call.arg.new_exam.timeslot_id
    /\ api_call.arg.schedule[1].room_id = api_call.arg.new_exam.room_id
    /\ api_call.arg.schedule[1].assigned_examiners = api_call.arg.new_exam.assigned_examiners
    /\ api_call.arg.schedule[2].timeslot_id = api_call.arg.new_exam.timeslot_id
    /\ api_call.arg.schedule[2].room_id # api_call.arg.new_exam.room_id
    /\ api_call.arg.schedule[2].assigned_examiners = <<1, 2, 3>>
    /\ api_call.arg.new_exam.assigned_examiners = <<1, 4, 5>>

Running == pc \in {"sessions", "timeslots"}

\* a step of a run keeps the order of the items and either stays at the current
\* item or records it, in the schedule or in the infeasible list, and moves to the
\* next one
VisitStep ==
    Running =>
        /\ sorted_sessions' = sorted_sessions
        /\ session_idx' \in {session_idx, session_idx + 1}
        /\ session_idx' = session_idx + 1 <=>
               Len(schedule') + Len(infeasible_exams') =
                   Len(schedule) + Len(infeasible_exams) + 1
        /\ Len(schedule') + Len(infeasible_exams') = session_idx' - 1

\* the work left in a run: the items not yet recorded, each worth one step more
\* than the steps of an item, then the timeslots the current item has not tried
RemainingWork ==
    LET steps_per_item == Len(timeslots) + 3
        items_left == Len(sorted_sessions) - session_idx + 1
    IN CASE pc = "sessions" -> items_left * steps_per_item + 1
         [] pc = "timeslots" ->
                (items_left - 1) * steps_per_item + (Len(timeslots) - timeslot_idx + 1) + 2
         [] OTHER -> 0

\* C24: every call of generate_schedule ends, with a Solution or with the error
\* of the unsupported method: the work left is finite and every step of the call
\* lessens it, and the loop indices stay where a next statement exists; each work
\* item is visited once, and the call returns after the last one
RunTerminates ==
    /\ [][VisitStep /\ (Running => RemainingWork' < RemainingWork)]_vars
    /\ [](RemainingWork >= 0)
    /\ [](Running => /\ Len(sorted_sessions) = Len(exam_sessions)
                      /\ session_idx \in 1..(Len(sorted_sessions) + 1)
                      /\ pc = "timeslots" =>
                             /\ session_idx <= Len(sorted_sessions)
                             /\ timeslot_idx \in 1..(Len(timeslots) + 1))
    /\ [](pc = "returned" => session_idx = Len(sorted_sessions) + 1)

\* a call has returned after it recorded every one of at least two work items
RunTerminatesWitness ==
    /\ pc = "returned"
    /\ Len(sorted_sessions) >= 2
    /\ session_idx = Len(sorted_sessions) + 1
    /\ Len(solution.schedule) + Len(solution.infeasible_exams) = Len(sorted_sessions)
    /\ solution.schedule # <<>>

IsPositiveMatrix(matrix) ==
    \A i \in 1..Len(matrix) : \A j \in 1..Len(matrix[i]) : matrix[i][j] > 0

\* C25: for every strictly positive matrix that passes the validation, the weights
\* calculate_ahp_weights derives are all >= 0 and sum to 1 within 1e-6, whichever
\* sign the eigenvector came with
AHPWeightsSumToOne ==
    (/\ api_call.op = "calculate_ahp_weights"
     /\ ~api_call.result.raised
     /\ IsPositiveMatrix(api_call.arg))
        => /\ \A i \in 1..Len(api_call.result.weights) :
                  /\ ~IsNaN(api_call.result.weights[i])
                  /\ api_call.result.weights[i] >= 0
                  /\ api_call.result.weights[i] < Inf
           /\ Abs(SumSeq(api_call.result.weights) - WeightUnit) <= WeightUnit \div Micro

\* the consistent 3 x 3 matrix of the importances 4 : 2 : 1, whose eigenvector
\* came with a negative sign, gives the weights 4/7, 2/7 and 1/7
AHPWeightsSumToOneWitness ==
    /\ api_call.op = "calculate_ahp_weights"
    /\ api_call.arg = ConsistentMatrix(<<4, 2, 1>>)
    /\ api_call.eig_sign = -1
    /\ ~api_call.result.raised
    /\ api_call.result.weights = <<57142857, 28571428, 14285714>>
\* list is old with at most one element appended at its end
GrewAtEnd(old, list) ==
    /\ Len(list) \in {Len(old), Len(old) + 1}
    /\ SubSeq(list, 1, Len(old)) = old

RecordedIds == {schedule[k].exam_id : k \in 1..Len(schedule)} \cup Range(infeasible_exams)

NoBacktrackingStep ==
    Running =>
        /\ GrewAtEnd(schedule, schedule')
        /\ GrewAtEnd(infeasible_exams, infeasible_exams')
        /\ pc' = "returned" => /\ solution'.schedule = schedule
                               /\ solution'.infeasible_exams = infeasible_exams

\* C26: during a run every step leaves the committed assignments and the
\* infeasible items as they are, with at most one new entry at the end of one of
\* the two lists, the solution returned holds the two lists as they stand, and no
\* item that is recorded in either list is the current item or one still to come
NoBacktracking ==
    /\ [][NoBacktrackingStep]_vars
    /\ [](Running =>
             \A k \in session_idx..Len(sorted_sessions) :
                 sorted_sessions[k].id \notin RecordedIds)

\* a run has returned the assignment of its second item, committed after the
\* first item was recorded as infeasible
NoBacktrackingWitness ==
    /\ pc = "returned"
    /\ Len(solution.schedule) = 1
    /\ Len(solution.infeasible_exams) = 1
    /\ solution.schedule[1].exam_id = sorted_sessions[2].id
ExaminerWithId(examiner_id) ==
    CHOOSE i \in 1..Len(examiners) : examiners[i].id = examiner_id

IsAvailableAssignment(result) ==
    /\ \A examiner_id \in Range(result.assigned_examiners) :
           /\ \E i \in 1..Len(examiners) : examiners[i].id = examiner_id
           /\ result.timeslot_id \in examiners[ExaminerWithId(examiner_id)].available_timeslots
    /\ \E t \in 1..Len(timeslots) : timeslots[t].id = result.timeslot_id
    /\ \E r \in 1..Len(rooms) : rooms[r].id = result.room_id

\* C27: every examiner of a committed assignment is an input examiner whose
\* available timeslots contain the assignment's timeslot, and the timeslot and
\* the room of the assignment are a timeslot and a room of the input
AssignmentsRespectAvailability ==
    /\ \A k \in 1..Len(schedule) : IsAvailableAssignment(schedule[k])
    /\ pc = "returned" =>
           \A k \in 1..Len(solution.schedule) : IsAvailableAssignment(solution.schedule[k])

\* an assignment is committed with an examiner who is not available at every
\* timeslot, next to another examiner who is
AssignmentsRespectAvailabilityWitness ==
    /\ schedule # <<>>
    /\ \E i \in 1..Len(examiners) :
           /\ examiners[i].available_timeslots = {1}
           /\ examiners[i].id \in Range(schedule[1].assigned_examiners)
    /\ Len(schedule[1].assigned_examiners) >= 2
AtUnknownStudent ==
    /\ pc = "sessions"
    /\ session_idx <= Len(sorted_sessions)
    /\ CurrentStudent = None

\* C28: the step taken at a session whose student_id is the id of no student
\* appends the session's id to the infeasible list and moves on to the next
\* session: no timeslot is tried, no examiner is selected, no candidate is kept,
\* the schedule and the examiners with their workloads stay as they are, and the
\* call does not end
UnknownStudentIsSkipped ==
    [][AtUnknownStudent =>
          /\ infeasible_exams' = Append(infeasible_exams, CurrentSession.id)
          /\ session_idx' = session_idx + 1
          /\ pc' = "sessions"
          /\ UNCHANGED <<examiners, schedule, total_satisfaction, timeslot_idx,
                         selected_examiners, best_schedule, best_score,
                         sorted_sessions, solution>>]_vars

\* the session of an unknown student came first and was recorded, and the
\* timeslots of the next session are being tried
UnknownStudentIsSkippedWitness ==
    /\ pc = "timeslots"
    /\ session_idx = 2
    /\ timeslot_idx > 1
    /\ StudentLookup(students, sorted_sessions[1].student_id) = None
    /\ infeasible_exams = <<sorted_sessions[1].id>>
    /\ Workloads(examiners) = start_workload
\* number of input timeslots at which the examiner is available
AvailableSlotCount(examiner) ==
    Cardinality({t \in 1..Len(timeslots) :
                    timeslots[t].id \in examiner.available_timeslots})

\* number of committed assignments in the timeslot
CountInTimeslot(timeslot_id) ==
    Cardinality({k \in 1..Len(schedule) : schedule[k].timeslot_id = timeslot_id})

\* C29: after every step of a run, no examiner is in more committed assignments
\* than there are input timeslots at which the examiner is available, and no
\* timeslot holds more committed assignments than there are rooms
CapacityBounds ==
    /\ \A i \in 1..Len(examiners) :
           CountAssignments(examiners[i].id) <= AvailableSlotCount(examiners[i])
    /\ \A t \in 1..Len(timeslots) : CountInTimeslot(timeslots[t].id) <= Len(rooms)

\* with fewer rooms than sessions, every session is committed: a timeslot is
\* full, and an examiner is taken at every timeslot at which the examiner is
\* available
CapacityBoundsWitness ==
    /\ Len(schedule) = NumSessions
    /\ Len(rooms) < NumSessions
    /\ \E t \in 1..Len(timeslots) : CountInTimeslot(timeslots[t].id) = Len(rooms)
    /\ \E i \in 1..Len(examiners) :
           /\ AvailableSlotCount(examiners[i]) >= 2
           /\ CountAssignments(examiners[i].id) = AvailableSlotCount(examiners[i])
\* C30: the examiner ids of every committed assignment and of every result of
\* select_best_examiners are pairwise distinct, and the supervisor, who comes
\* first in a result, is not among the ranked examiners behind
ExaminersAreDistinct ==
    /\ \A k \in 1..Len(schedule) :
           Cardinality(Range(schedule[k].assigned_examiners))
               = Len(schedule[k].assigned_examiners)
    /\ Cardinality(SelectedIds) = Len(selected_examiners)
    /\ (pc = "timeslots" /\ timeslot_idx > 1) =>
           \A k \in 2..Len(selected_examiners) :
               selected_examiners[k].examiner.id # CurrentStudent.supervisor_id

\* an assignment of three examiners is committed and the selection for the next
\* session holds the supervisor and two ranked examiners
ExaminersAreDistinctWitness ==
    /\ schedule # <<>>
    /\ Len(schedule[1].assigned_examiners) = 3
    /\ pc = "timeslots"
    /\ timeslot_idx > 1
    /\ Len(selected_examiners) = 3
    /\ selected_examiners[1].examiner.id = CurrentStudent.supervisor_id
====
